---- MODULE Spec2Model ----
(***************************************************************************)
(* Model of .github/commit_checks.py: the commit-history policy checker.   *)
(* One run of the script is one behaviour: the command line is parsed, the *)
(* source branch is validated, `git rev-list --count --left-right` is run  *)
(* and parsed, the rebase and commit-count rules are applied, `git         *)
(* describe` is run and parsed, and the ancestry rule is applied.          *)
(*                                                                         *)
(* Text (the bytes a subprocess prints, the decoded str) is a sequence of  *)
(* one-character strings, so that rsplit, split, strip and int() are       *)
(* computed character by character as Python computes them.  The words of  *)
(* the command line are texts too: argparse reads them character by        *)
(* character (prefixes, "=", abbreviations).                               *)
(***************************************************************************)
EXTENDS Integers, Sequences, FiniteSets

VARIABLES
    pc,             \* position in main(): the next statement to run
    srcb,           \* parse_args().srcb (None until parse_args has returned)
    tgtb,           \* parse_args().tgtb (None until parse_args has returned)
    source_branch,  \* str(parse_args().srcb)
    target_branch,  \* str(parse_args().tgtb)
    out,            \* the local `out`: bytes of the last successful check_output
    behind,         \* the local `behind` (bound by line 33; 0 before that)
    ahead,          \* the local `ahead`  (bound by line 33; 0 before that)
    parent_head,    \* the local `parent_head` (bound by line 55; <<>> before)
    calls,          \* the subprocess invocations made so far, in order
    stdout,         \* the messages printed so far, in order
    stderr,         \* what was written to the error stream so far, in order
    exc,            \* the exception raised in a try block: <<>> or <<type>>
    system_exit,    \* the SystemExit parse_args raised: <<>> or <<status>>
    check_status    \* line 74: <<>> until main() returns, then <<code>>

vars == <<pc, srcb, tgtb, source_branch, target_branch, out, behind, ahead,
          parent_head, calls, stdout, stderr, exc, system_exit, check_status>>

(***************************************************************************)
(* Bounds of the model and program constants.                              *)
(***************************************************************************)
MaxDistLen == 4     \* every rev-list output of at most this many characters
MaxAncLen == 3      \* every describe output of at most this many characters
MaxArgs == 2        \* every command line of at most this many words

COMMIT_LIMIT == 15

(***************************************************************************)
(* Python text primitives.                                                 *)
(***************************************************************************)
\* A character that TLA+ cannot write in a string is written by its code
\* point, as one element of the text: "U+000B" is the vertical tab.

\* the characters str.strip() drops from both ends: those str.isspace() holds
\* of (line 55)
Whitespace ==
    {" ", "\t", "\n", "\r", "\f", "U+000B", "U+001C", "U+001D", "U+001E", "U+001F",
     "U+0085", "U+00A0", "U+1680", "U+2000", "U+2001", "U+2002", "U+2003",
     "U+2004", "U+2005", "U+2006", "U+2007", "U+2008", "U+2009", "U+200A",
     "U+2028", "U+2029", "U+202F", "U+205F", "U+3000"}

\* the characters int() ignores around a literal (line 33): the same, but for
\* the four separators U+001C..U+001F, on which int() raises
IntWhitespace == Whitespace \ {"U+001C", "U+001D", "U+001E", "U+001F"}

DigitChars == <<"0", "1", "2", "3", "4", "5", "6", "7", "8", "9">>

\* int() also reads every other character of Unicode category Nd as the digit
\* it denotes: "Nd3" stands for any such character of value 3 (U+0663, U+FF13)
OtherDigitChars ==
    <<"Nd0", "Nd1", "Nd2", "Nd3", "Nd4", "Nd5", "Nd6", "Nd7", "Nd8", "Nd9">>

Digits == {DigitChars[i] : i \in 1..10} \cup {OtherDigitChars[i] : i \in 1..10}

DigitVal(c) ==
    (CHOOSE i \in 1..10 : DigitChars[i] = c \/ OtherDigitChars[i] = c) - 1

\* The bytes a subprocess prints are written one element per character they
\* encode (an ASCII byte, or the UTF-8 sequence of one character), and one
\* element for a byte that is not valid UTF-8.
InvalidByte == "xFF"

\* bytes.decode("utf-8") raises UnicodeDecodeError on a malformed byte
DecodeRaises(b) == \E i \in 1..Len(b) : b[i] = InvalidByte

\* bytes.decode("utf-8") of well-formed bytes: the characters they encode
Decode(b) == [i \in 1..Len(b) |-> b[i]]

\* s without its leading characters of W
RECURSIVE LStrip(_, _)
LStrip(s, W) == IF s # <<>> /\ s[1] \in W THEN LStrip(Tail(s), W) ELSE s

\* s without its trailing characters of W
RECURSIVE RStrip(_, _)
RStrip(s, W) ==
    IF s # <<>> /\ s[Len(s)] \in W
    THEN RStrip(SubSeq(s, 1, Len(s) - 1), W)
    ELSE s

\* str.strip()
Strip(s) == RStrip(LStrip(s, Whitespace), Whitespace)

\* the literal int() reads: its argument without the whitespace it ignores
IntStrip(s) == RStrip(LStrip(s, IntWhitespace), IntWhitespace)

\* the positions of sep in s
Positions(s, sep) == {i \in 1..Len(s) : s[i] = sep}

Max(S) == CHOOSE x \in S : \A y \in S : y <= x

Min(S) == CHOOSE x \in S : \A y \in S : x <= y

\* str.rsplit(sep, maxsplit=1): cut once, at the last sep
RSplit1(s, sep) ==
    IF Positions(s, sep) = {}
    THEN <<s>>
    ELSE LET i == Max(Positions(s, sep))
         IN  <<SubSeq(s, 1, i - 1), SubSeq(s, i + 1, Len(s))>>

\* str.split(sep): cut at every sep
RECURSIVE Split(_, _)
Split(s, sep) ==
    IF Positions(s, sep) = {}
    THEN <<s>>
    ELSE LET i == Min(Positions(s, sep))
         IN  <<SubSeq(s, 1, i - 1)>> \o Split(SubSeq(s, i + 1, Len(s)), sep)

\* the sign-less part of an int() literal: the text after an optional sign
Unsigned(t) == IF t # <<>> /\ t[1] \in {"+", "-"} THEN Tail(t) ELSE t

\* sys.get_int_max_str_digits(), as the interpreter sets it by default: int()
\* raises ValueError on a decimal literal of more digits
INT_MAX_STR_DIGITS == 4300

\* int(s) succeeds: optional whitespace, optional sign, digits with single
\* underscores between them, optional whitespace; the digits (leading zeros
\* counted, underscores not) are no more than the interpreter's limit
IntOk(s) ==
    LET b == Unsigned(IntStrip(s))
    IN  /\ b # <<>>
        /\ Cardinality({i \in 1..Len(b) : b[i] \in Digits}) <= INT_MAX_STR_DIGITS
        /\ \A i \in 1..Len(b) : b[i] \in Digits \cup {"_"}
        /\ b[1] \in Digits
        /\ b[Len(b)] \in Digits
        /\ \A i \in 1..(Len(b) - 1) : ~(b[i] = "_" /\ b[i + 1] = "_")

RECURSIVE Magnitude(_)
Magnitude(b) ==
    IF b = <<>> THEN 0
    ELSE IF b[Len(b)] = "_" THEN Magnitude(SubSeq(b, 1, Len(b) - 1))
    ELSE 10 * Magnitude(SubSeq(b, 1, Len(b) - 1)) + DigitVal(b[Len(b)])

\* int(s), where IntOk(s)
IntVal(s) ==
    LET t == IntStrip(s)
    IN  IF t[1] = "-" THEN 0 - Magnitude(Unsigned(t)) ELSE Magnitude(Unsigned(t))

(***************************************************************************)
(* The command line: parser.parse_args() of lines 17-23, for the parser     *)
(* those lines build (options -s/--srcb and -t/--tgtb taking one word,      *)
(* -h/--help added by argparse, no positional argument).                    *)
(***************************************************************************)
\* the values an attribute of the parsed namespace holds
None == [type |-> "NoneType", value |-> <<>>]

StrOf(t) == [type |-> "str", value |-> t]

EmptyList == [type |-> "list", value |-> <<>>]

\* str(x) of such a value: str(None) is the text "None", str([]) is "[]"
Str(v) ==
    IF v.type = "NoneType" THEN <<"N", "o", "n", "e">>
    ELSE IF v.type = "list" THEN <<"[", "]">>
    ELSE v.value

\* lines 19-20: the default of --tgtb
DefaultTarget == <<"o", "r", "i", "g", "i", "n", "/", "m", "a", "i", "n">>

PrefixChars == {"-"}

ShortHelp == <<"-", "h">>

LongHelp == <<"-", "-", "h", "e", "l", "p">>

ShortSrc == <<"-", "s">>

LongSrc == <<"-", "-", "s", "r", "c", "b">>

ShortTgt == <<"-", "t">>

LongTgt == <<"-", "-", "t", "g", "t", "b">>

DoubleDash == <<"-", "-">>

OptionStrings == {ShortHelp, LongHelp, ShortSrc, LongSrc, ShortTgt, LongTgt}

\* parser._option_string_actions: the action of each option string, named by
\* the attribute it stores ("help" prints the help text and exits)
OptionStringActions ==
    [o \in OptionStrings |->
        IF o \in {ShortHelp, LongHelp} THEN "help"
        ELSE IF o \in {ShortSrc, LongSrc} THEN "srcb"
        ELSE "tgtb"]

\* str.startswith
StartsWith(s, p) == Len(p) <= Len(s) /\ SubSeq(s, 1, Len(p)) = p

\* s.split("=", 1) when "=" is in s: the text before the first "=", and after
BeforeEq(s) == SubSeq(s, 1, Min(Positions(s, "=")) - 1)

AfterEq(s) == SubSeq(s, Min(Positions(s, "=")) + 1, Len(s))

\* an option as _parse_optional returns it: the action (<<>> when the parser
\* has no such option), the option string, the argument written in the same
\* word (<<>> when there is none)
OptionTuple(a, o, e) == [action |-> a, option_string |-> o, explicit_arg |-> e]

\* _get_option_tuples: the options a word may abbreviate (two prefix
\* characters: any option string it is a prefix of, up to "="), or the
\* one-letter option a word starts with, the rest being its argument
GetOptionTuples(s) ==
    IF s[2] \in PrefixChars
    THEN LET option_prefix == IF Positions(s, "=") # {} THEN BeforeEq(s) ELSE s
             explicit_arg == IF Positions(s, "=") # {} THEN <<AfterEq(s)>>
                             ELSE <<>>
         IN  {OptionTuple(<<OptionStringActions[o]>>, o, explicit_arg) :
                o \in {x \in OptionStrings : StartsWith(x, option_prefix)}}
    ELSE {OptionTuple(<<OptionStringActions[o]>>, o,
                      <<SubSeq(s, 3, Len(s))>>) :
                o \in {x \in OptionStrings : x = SubSeq(s, 1, 2)}}
         \cup
         {OptionTuple(<<OptionStringActions[o]>>, o, <<>>) :
                o \in {x \in OptionStrings :
                          x # SubSeq(s, 1, 2) /\ StartsWith(x, s)}}

\* _negative_number_matcher, '^-\d+$|^-\d*\.\d+$': \d is any decimal digit and
\* $ also matches before a final newline
NegativeNumber(s) ==
    LET r == IF s # <<>> /\ s[Len(s)] = "\n" THEN SubSeq(s, 1, Len(s) - 1)
             ELSE s
        AllDigits(t) == \A i \in 1..Len(t) : t[i] \in Digits
    IN  /\ r # <<>>
        /\ r[1] = "-"
        /\ \/ Len(r) >= 2 /\ AllDigits(Tail(r))
           \/ \E k \in 2..(Len(r) - 1) :
                 /\ r[k] = "."
                 /\ AllDigits(SubSeq(r, 2, k - 1))
                 /\ AllDigits(SubSeq(r, k + 1, Len(r)))

\* _parse_optional gets past its exact matches: the word starts with a prefix
\* character, is longer than it, and is no option string, with or without "="
IsAbbreviation(s) ==
    /\ s # <<>>
    /\ s[1] \in PrefixChars
    /\ s \notin OptionStrings
    /\ Len(s) > 1
    /\ ~(Positions(s, "=") # {} /\ BeforeEq(s) \in OptionStrings)

\* _parse_optional reports an ambiguous option (a usage error)
AmbiguousOption(s) == IsAbbreviation(s) /\ Cardinality(GetOptionTuples(s)) > 1

\* _parse_optional: <<>> when the word is a positional argument, else <<t>>
\* for the option t it denotes
ParseOptional(s) ==
    IF s = <<>> THEN <<>>
    ELSE IF s[1] \notin PrefixChars THEN <<>>
    ELSE IF s \in OptionStrings
    THEN <<OptionTuple(<<OptionStringActions[s]>>, s, <<>>)>>
    ELSE IF Len(s) = 1 THEN <<>>
    ELSE IF Positions(s, "=") # {} /\ BeforeEq(s) \in OptionStrings
    THEN <<OptionTuple(<<OptionStringActions[BeforeEq(s)]>>, BeforeEq(s),
                       <<AfterEq(s)>>)>>
    ELSE IF Cardinality(GetOptionTuples(s)) = 1
    THEN <<CHOOSE t \in GetOptionTuples(s) : TRUE>>
    ELSE IF NegativeNumber(s) THEN <<>>
    ELSE IF Positions(s, " ") # {} THEN <<>>
    ELSE <<OptionTuple(<<>>, s, <<>>)>>

\* the index of the first word "--" (past the end when there is none): the
\* words after it are arguments whatever they look like
FirstDoubleDash(args) ==
    Min({i \in 1..Len(args) : args[i] = DoubleDash} \cup {Len(args) + 1})

\* arg_strings_pattern: "O" for an option, "A" for an argument, "-" for "--"
ArgStringsPattern(args) ==
    [i \in 1..Len(args) |->
        IF i > FirstDoubleDash(args) THEN "A"
        ELSE IF i = FirstDoubleDash(args) THEN "-"
        ELSE IF ParseOptional(args[i]) = <<>> THEN "A"
        ELSE "O"]

\* option_string_indices
OptionIndices(args) == {i \in 1..Len(args) : ArgStringsPattern(args)[i] = "O"}

\* _get_values of a one-word option: the word, but the word "--" is dropped
\* and leaves the empty list
GetValues(arg_strings) ==
    LET kept == IF \E i \in 1..Len(arg_strings) : arg_strings[i] = DoubleDash
                THEN LET k == Min({i \in 1..Len(arg_strings) :
                                      arg_strings[i] = DoubleDash})
                     IN  SubSeq(arg_strings, 1, k - 1) \o
                         SubSeq(arg_strings, k + 1, Len(arg_strings))
                ELSE arg_strings
    IN  IF Len(kept) = 1 THEN StrOf(kept[1]) ELSE EmptyList

\* what consume_optional gathers for the option at index i: the actions to
\* take with their arguments, the index after them, or an ArgumentError
ConsumeError(i) == [error |-> TRUE, action_tuples |-> <<>>, stop |-> i]

RECURSIVE ConsumeOptional(_, _, _, _, _)
ConsumeOptional(args, i, action, option_string, explicit_arg) ==
    IF explicit_arg # <<>>
    THEN IF /\ action = "help"
            /\ option_string[2] \notin PrefixChars
            /\ explicit_arg[1] # <<>>
         THEN \* -hX: the help flag takes no argument, X is read as more flags
              LET next == <<option_string[1], explicit_arg[1][1]>>
                  rest == Tail(explicit_arg[1])
              IN  IF next \in OptionStrings
                  THEN LET r == ConsumeOptional(args, i,
                                    OptionStringActions[next], next,
                                    IF rest = <<>> THEN <<>> ELSE <<rest>>)
                       IN  [r EXCEPT !.action_tuples =
                               <<[action |-> "help", args |-> <<>>]>> \o @]
                  ELSE ConsumeError(i)
         ELSE IF action # "help"
         THEN [error |-> FALSE,
               action_tuples |-> <<[action |-> action,
                                    args |-> <<explicit_arg[1]>>]>>,
               stop |-> i + 1]
         ELSE ConsumeError(i)
    ELSE IF action = "help"
    THEN [error |-> FALSE,
          action_tuples |-> <<[action |-> "help", args |-> <<>>]>>,
          stop |-> i + 1]
    ELSE IF i + 1 <= Len(args) /\ ArgStringsPattern(args)[i + 1] = "A"
    THEN [error |-> FALSE,
          action_tuples |-> <<[action |-> action, args |-> <<args[i + 1]>>]>>,
          stop |-> i + 2]
    ELSE ConsumeError(i)

\* parse_args ends: with the namespace, or by SystemExit with a status
Parsed(namespace) == [exit |-> <<>>, namespace |-> namespace]

Exits(status, namespace) == [exit |-> <<status>>, namespace |-> namespace]

\* the loop of _parse_known_args from index i on, and the end of parse_args:
\* words that are no option and no option's argument are extras, and extras
\* are a usage error; the help action exits with status 0 where it is taken
RECURSIVE ConsumeFrom(_, _, _, _)
ConsumeFrom(args, i, namespace, extras) ==
    IF \A k \in OptionIndices(args) : k < i
    THEN IF extras \/ i <= Len(args)
         THEN Exits(2, namespace)
         ELSE Parsed(namespace)
    ELSE IF i \notin OptionIndices(args)
    THEN ConsumeFrom(args, Min({k \in OptionIndices(args) : k >= i}),
                     namespace, TRUE)
    ELSE LET t == ParseOptional(args[i])[1]
         IN  IF t.action = <<>>
             THEN ConsumeFrom(args, i + 1, namespace, TRUE)
             ELSE LET r == ConsumeOptional(args, i, t.action[1],
                                           t.option_string, t.explicit_arg)
                      a == r.action_tuples[1]
                  IN  IF r.error THEN Exits(2, namespace)
                      ELSE IF a.action = "help" THEN Exits(0, namespace)
                      ELSE ConsumeFrom(args, r.stop,
                               [namespace EXCEPT ![a.action] =
                                                     GetValues(a.args)],
                               extras)

\* parser.parse_args() on the words args of the command line
ParseKnownArgs(args) ==
    IF \E i \in 1..Len(args) :
          i < FirstDoubleDash(args) /\ AmbiguousOption(args[i])
    THEN Exits(2, [srcb |-> None, tgtb |-> StrOf(DefaultTarget)])
    ELSE ConsumeFrom(args, 1, [srcb |-> None, tgtb |-> StrOf(DefaultTarget)],
                     FALSE)

(***************************************************************************)
(* The decisions of main(), one operator per condition of the code.        *)
(***************************************************************************)
\* the missing-source test written against the empty string
SourceMissing_Empty(s) == s = <<>>

\* line 25: the test that takes the missing-source exit
SourceMissing(s) == s = <<"N", "o", "n", "e">>

\* line 29: the rev-list command line, as the pieces the f-string joins
DistanceInvocation(tgt, src) ==
    <<"git rev-list --count --left-right ", tgt, "...", src>>

\* line 51: the describe command line
AncestryInvocation(src) ==
    <<"git describe --all --first-parent ", src, "~1 --abbrev=0">>

\* line 33: the list the comprehension iterates over
DistanceParts(text) == RSplit1(text, "\t")

\* line 33 raises ValueError: an int() fails, or the list does not unpack in two
DistanceParseRaises(text) ==
    \/ \E i \in 1..Len(DistanceParts(text)) : ~IntOk(DistanceParts(text)[i])
    \/ Len(DistanceParts(text)) # 2

\* line 33: the value bound to `behind`
ParsedBehind(text) == IntVal(DistanceParts(text)[1])

\* line 33: the value bound to `ahead`
ParsedAhead(text) == IntVal(DistanceParts(text)[2])

\* the rebase test off by one
NeedsRebase_OffByOne(b) == b > 1

\* line 38
NeedsRebase(b) == b > 0

\* the commit-count test with the limit itself rejected
TooManyCommits_Inclusive(a) == a >= COMMIT_LIMIT

\* line 43
TooManyCommits(a) == a > COMMIT_LIMIT

\* the first path segment taken instead of the last
LastSegment_First(text) == Split(text, "/")[1]

\* line 55: .split("/")[-1]
LastSegment(text) == Split(text, "/")[Len(Split(text, "/"))]

\* line 55: the value bound to `parent_head`
AncestryLabel(text) == Strip(LastSegment(text))

\* the text "main"
MainLabel == <<"m", "a", "i", "n">>

\* the ancestry test accepting any label that starts with "main"
FromMain_Prefix(label) == Len(label) >= 4 /\ SubSeq(label, 1, 4) = MainLabel

\* line 61, negated: the branch stems from main
FromMain(label) == label = MainLabel

\* The exception classes of the interpreter and of the modules the script
\* imports (argparse, subprocess), each paired with each of its base classes;
\* asyncio.CancelledError is listed too, as a class outside Exception that a
\* library may raise.  "BaseException" is the root.
Inherits ==
    {<<"ArgumentError", "Exception">>, <<"ArgumentTypeError", "Exception">>,
     <<"ArithmeticError", "Exception">>, <<"AssertionError", "Exception">>,
     <<"AttributeError", "Exception">>,
     <<"BaseExceptionGroup", "BaseException">>,
     <<"BlockingIOError", "OSError">>,
     <<"BrokenPipeError", "ConnectionError">>,
     <<"BufferError", "Exception">>, <<"BytesWarning", "Warning">>,
     <<"CalledProcessError", "SubprocessError">>,
     <<"ChildProcessError", "OSError">>,
     <<"ConnectionAbortedError", "ConnectionError">>,
     <<"ConnectionError", "OSError">>,
     <<"ConnectionRefusedError", "ConnectionError">>,
     <<"ConnectionResetError", "ConnectionError">>,
     <<"DeprecationWarning", "Warning">>, <<"EOFError", "Exception">>,
     <<"EncodingWarning", "Warning">>, <<"Exception", "BaseException">>,
     <<"ExceptionGroup", "BaseExceptionGroup">>,
     <<"ExceptionGroup", "Exception">>, <<"FileExistsError", "OSError">>,
     <<"FileNotFoundError", "OSError">>,
     <<"FloatingPointError", "ArithmeticError">>,
     <<"FutureWarning", "Warning">>, <<"GeneratorExit", "BaseException">>,
     <<"ImportError", "Exception">>, <<"ImportWarning", "Warning">>,
     <<"IndentationError", "SyntaxError">>, <<"IndexError", "LookupError">>,
     <<"InterruptedError", "OSError">>, <<"IsADirectoryError", "OSError">>,
     <<"KeyError", "LookupError">>, <<"KeyboardInterrupt", "BaseException">>,
     <<"LookupError", "Exception">>, <<"MemoryError", "Exception">>,
     <<"ModuleNotFoundError", "ImportError">>, <<"NameError", "Exception">>,
     <<"NotADirectoryError", "OSError">>,
     <<"NotImplementedError", "RuntimeError">>, <<"OSError", "Exception">>,
     <<"OverflowError", "ArithmeticError">>,
     <<"PendingDeprecationWarning", "Warning">>,
     <<"PermissionError", "OSError">>, <<"ProcessLookupError", "OSError">>,
     <<"RecursionError", "RuntimeError">>, <<"ReferenceError", "Exception">>,
     <<"ResourceWarning", "Warning">>, <<"RuntimeError", "Exception">>,
     <<"RuntimeWarning", "Warning">>, <<"StopAsyncIteration", "Exception">>,
     <<"StopIteration", "Exception">>, <<"SubprocessError", "Exception">>,
     <<"SyntaxError", "Exception">>, <<"SyntaxWarning", "Warning">>,
     <<"SystemError", "Exception">>, <<"SystemExit", "BaseException">>,
     <<"TabError", "IndentationError">>, <<"TimeoutError", "OSError">>,
     <<"TimeoutExpired", "SubprocessError">>, <<"TypeError", "Exception">>,
     <<"UnboundLocalError", "NameError">>,
     <<"UnicodeDecodeError", "UnicodeError">>,
     <<"UnicodeEncodeError", "UnicodeError">>,
     <<"UnicodeError", "ValueError">>,
     <<"UnicodeTranslateError", "UnicodeError">>,
     <<"UnicodeWarning", "Warning">>, <<"UserWarning", "Warning">>,
     <<"ValueError", "Exception">>, <<"Warning", "Exception">>,
     <<"ZeroDivisionError", "ArithmeticError">>,
     <<"asyncio.CancelledError", "BaseException">>}

ExceptionClasses == {p[1] : p \in Inherits} \cup {"BaseException"}

\* cls.__bases__, for the classes above only
Bases == [c \in ExceptionClasses |-> {p[2] : p \in {q \in Inherits : q[1] = c}}]

\* issubclass(c, d)
RECURSIVE IsSubclass(_, _)
IsSubclass(c, d) ==
    \/ c = d
    \/ \E b \in Bases[c] : IsSubclass(b, d)

\* lines 34 and 56: `except Exception` handles an exception of any class
\* derived from Exception
Catches(e) == IsSubclass(e, "Exception")

\* the values main() returns
ExitPass == <<0>>

ExitPolicy == <<1>>

ExitError == <<-1>>

(***************************************************************************)
(* The inputs of a run: the command line, and what the two subprocesses    *)
(* do (fail, or print some bytes).                                         *)
(***************************************************************************)
\* words of a command line
NoneWord == <<"N", "o", "n", "e">>

FeatureX == <<"f", "e", "a", "t", "u", "r", "e", "-", "x">>

Dev == <<"d", "e", "v">>

ArgWords == {ShortSrc, ShortTgt, ShortHelp, <<"-", "x">>, NoneWord, FeatureX}

\* the forms argparse accepts besides "-s word", and the ones it rejects
ArgSamples ==
    { <<ShortSrc, FeatureX, ShortTgt, Dev>>,
      <<ShortTgt, Dev>>,
      <<ShortTgt, Dev, ShortSrc, NoneWord>>,
      <<LongSrc, FeatureX, LongTgt, DefaultTarget>>,
      <<LongSrc \o <<"=">> \o FeatureX>>,
      <<ShortSrc \o FeatureX>>,
      <<ShortSrc \o <<"=">> \o FeatureX>>,
      <<<<"-", "-", "s", "r", "c">>, FeatureX>>,
      <<<<"-", "-", "s", "=">> \o FeatureX>>,
      <<ShortSrc, NoneWord, ShortSrc, FeatureX>>,
      <<LongSrc \o <<"=">>>>,
      <<ShortSrc \o DoubleDash>>,
      <<ShortSrc, <<"-", "1">>>>,
      <<ShortSrc, <<"-", "x", " ", "y">>>>,
      <<ShortSrc, <<"-">>>>,
      <<ShortSrc, DoubleDash, FeatureX>>,
      <<DoubleDash>>,
      <<ShortSrc, FeatureX, <<"e", "x", "t", "r", "a">>>>,
      <<ShortSrc, FeatureX, <<"-", "x">>>>,
      <<ShortSrc, FeatureX, ShortHelp>>,
      <<<<"-", "x">>, FeatureX, LongHelp>>,
      <<ShortSrc, ShortHelp>>,
      <<<<"-", "h", "s">>>>,
      <<<<"-", "h", "s">>, FeatureX>>,
      <<<<"-", "h", "x">>>>,
      <<ShortHelp \o <<"=">>>>,
      <<<<"-", "-", "h", "e">>>>,
      <<<<"-", "-", "=", "x">>>>,
      <<ShortHelp, <<"-", "-", "=", "x">>>>,
      <<<<"-", "-", "s", "r", "c", "b", "x">>, FeatureX>> }

CommandLines == UNION {[1..k -> ArgWords] : k \in 0..MaxArgs} \cup ArgSamples

DistAlphabet == {"0", "1", "-", "x", "\t", "\n"}

AncAlphabet == {"m", "a", "i", "n", "/", "\n"}

\* every text over alphabet A of at most n characters
TextsUpTo(A, n) == UNION {[1..k -> A] : k \in 0..n}

\* the outputs of section 8 of the specification and the boundary cases
DistSamples ==
    { <<"0", "\t", "3">>,
      <<"2", "\t", "1">>,
      <<"0", "\t", "2", "0">>,
      <<"0", "\t", "5">>,
      <<"0", "\t", "3", "\n">>,
      <<"0", "\t", "1", "5", "\n">>,
      <<"0", "\t", "1", "6", "\n">>,
      <<"1", "\t", "1", "6", "\n">>,
      <<"-", "1", "\t", "3", "\n">>,
      <<"1", "\t", "2", "\t", "3", "\n">>,
      <<"1", "\t", "\t", "2", "\n">>,
      <<"0", "\t", "3", "xFF">>,
      <<"0", "\t", "3", "U+000B">>,
      <<"0", "\t", "3", "U+001C">>,
      <<"U+00A0", "0", "\t", "1", "U+3000", "\n">>,
      <<"0", "\t", "Nd3", "\n">>,
      <<"Nd1", "\t", "1", "\n">>,
      <<"0", "\t", "1", "Nd6", "\n">>,
      <<"0", "\t">> \o [i \in 1..(INT_MAX_STR_DIGITS + 1) |-> "9"] }

AncSamples ==
    { <<"r", "e", "f", "s", "/", "r", "e", "m", "o", "t", "e", "s", "/",
        "o", "r", "i", "g", "i", "n", "/", "m", "a", "i", "n">>,
      <<"r", "e", "f", "s", "/", "h", "e", "a", "d", "s", "/",
        "f", "e", "a", "t", "u", "r", "e", "-", "x">>,
      <<"h", "e", "a", "d", "s", "/", "m", "a", "i", "n", "\n">>,
      <<"m", "a", "i", "n">>,
      <<"m", "a", "i", "n", "\n">>,
      <<"/", "m", "a", "i", "n">>,
      <<"m", "a", "i", "n", "/">>,
      <<"h", "e", "a", "d", "s", "/", "M", "a", "i", "n", "\n">>,
      <<"m", "a", "i", "n", "/", "x", "\n">>,
      <<"m", "a", "i", "n", "t", "\n">>,
      <<"x", "/", " ", "m", "a", "i", "n", " ", "\n">>,
      <<"m", "a", "i", "n", "xFF">>,
      <<"m", "a", "i", "n", "U+000B", "\n">>,
      <<"m", "a", "i", "n", "U+001C">>,
      <<"h", "e", "a", "d", "s", "/", "U+0085", "m", "a", "i", "n">>,
      <<"m", "a", "i", "n", "Nd1", "\n">> }

DistOutputs == TextsUpTo(DistAlphabet, MaxDistLen) \cup DistSamples

AncOutputs == TextsUpTo(AncAlphabet, MaxAncLen) \cup AncSamples

\* the exceptions subprocess.check_output raises: the command exits non-zero,
\* or the shell cannot be started (the command line is too long, say)
CallErrors == {"CalledProcessError", "OSError"}

\* what subprocess.check_output does: raise, or return the bytes printed
Outcomes(outputs) ==
    {[raised |-> <<e>>, bytes |-> <<>>] : e \in CallErrors} \cup
    {[raised |-> <<>>, bytes |-> o] : o \in outputs}

(***************************************************************************)
(* The run.                                                                *)
(***************************************************************************)
Say(kind, a) == stdout' = Append(stdout, [msg |-> kind, arg |-> a])

Return(code) == /\ check_status' = code
                /\ pc' = "done"

\* lines 34-36 and 56-59: the except clause, or the traceback when no clause
\* matches (main() then never returns)
Except(e) ==
    /\ exc' = <<e>>
    /\ IF Catches(e)
       THEN /\ Say("history check error", <<e>>)
            /\ Return(ExitError)
            /\ UNCHANGED stderr
       ELSE /\ pc' = "uncaught"
            /\ stderr' = Append(stderr, "traceback")
            /\ UNCHANGED <<stdout, check_status>>

Init ==
    /\ pc = "parse_args"
    /\ srcb = None
    /\ tgtb = None
    /\ source_branch = <<>>
    /\ target_branch = <<>>
    /\ out = <<>>
    /\ behind = 0
    /\ ahead = 0
    /\ parent_head = <<>>
    /\ calls = <<>>
    /\ stdout = <<>>
    /\ stderr = <<>>
    /\ exc = <<>>
    /\ system_exit = <<>>
    /\ check_status = <<>>

\* lines 17-23: parse_args returns the namespace, or raises SystemExit (the
\* help text on the output stream and status 0; the usage and the error on the
\* error stream and status 2), which main() does not handle: it never returns
ParseArgs ==
    /\ pc = "parse_args"
    /\ \E argv \in CommandLines :
          LET r == ParseKnownArgs(argv)
          IN  IF r.exit = <<>>
              THEN /\ srcb' = r.namespace.srcb
                   /\ tgtb' = r.namespace.tgtb
                   /\ source_branch' = Str(r.namespace.srcb)
                   /\ target_branch' = Str(r.namespace.tgtb)
                   /\ pc' = "check_source"
                   /\ UNCHANGED <<stdout, stderr, system_exit>>
              ELSE /\ system_exit' = r.exit
                   /\ pc' = "exited"
                   /\ IF r.exit = <<0>>
                      THEN /\ Say("help", <<>>)
                           /\ UNCHANGED stderr
                      ELSE /\ stderr' = Append(stderr, "usage error")
                           /\ UNCHANGED stdout
                   /\ UNCHANGED <<srcb, tgtb, source_branch, target_branch>>
    /\ UNCHANGED <<out, behind, ahead, parent_head, calls, exc, check_status>>

\* lines 25-27
CheckSource ==
    /\ pc = "check_source"
    /\ IF SourceMissing(source_branch)
       THEN /\ Say("source branch missing", <<>>)
            /\ Return(ExitError)
       ELSE /\ pc' = "distance_query"
            /\ UNCHANGED <<stdout, check_status>>
    /\ UNCHANGED <<srcb, tgtb, source_branch, target_branch, out, behind, ahead,
                   parent_head, calls, stderr, exc, system_exit>>

\* lines 29-36
DistanceQuery ==
    /\ pc = "distance_query"
    /\ calls' = Append(calls, DistanceInvocation(target_branch, source_branch))
    /\ \E r \in Outcomes(DistOutputs) :
          IF r.raised # <<>>
          THEN /\ Except(r.raised[1])
               /\ UNCHANGED <<out, behind, ahead>>
          ELSE /\ out' = r.bytes
               /\ IF DecodeRaises(r.bytes)
                  THEN /\ Except("UnicodeDecodeError")
                       /\ UNCHANGED <<behind, ahead>>
                  ELSE IF DistanceParseRaises(Decode(r.bytes))
                  THEN /\ Except("ValueError")
                       /\ UNCHANGED <<behind, ahead>>
                  ELSE /\ behind' = ParsedBehind(Decode(r.bytes))
                       /\ ahead' = ParsedAhead(Decode(r.bytes))
                       /\ pc' = "check_behind"
                       /\ UNCHANGED <<stdout, stderr, exc, check_status>>
    /\ UNCHANGED <<srcb, tgtb, source_branch, target_branch, parent_head,
                   system_exit>>

\* lines 38-41
CheckBehind ==
    /\ pc = "check_behind"
    /\ IF NeedsRebase(behind)
       THEN /\ Say("needs rebase", <<behind>>)
            /\ Return(ExitPolicy)
       ELSE /\ pc' = "check_ahead"
            /\ UNCHANGED <<stdout, check_status>>
    /\ UNCHANGED <<srcb, tgtb, source_branch, target_branch, out, behind, ahead,
                   parent_head, calls, stderr, exc, system_exit>>

\* lines 43-49
CheckAhead ==
    /\ pc = "check_ahead"
    /\ IF TooManyCommits(ahead)
       THEN /\ Say("too many commits", <<ahead, COMMIT_LIMIT + 1>>)
            /\ Return(ExitPolicy)
       ELSE /\ Say("history up to date", <<ahead>>)
            /\ pc' = "ancestry_query"
            /\ UNCHANGED check_status
    /\ UNCHANGED <<srcb, tgtb, source_branch, target_branch, out, behind, ahead,
                   parent_head, calls, stderr, exc, system_exit>>

\* lines 51-59
AncestryQuery ==
    /\ pc = "ancestry_query"
    /\ calls' = Append(calls, AncestryInvocation(source_branch))
    /\ \E r \in Outcomes(AncOutputs) :
          IF r.raised # <<>>
          THEN /\ Except(r.raised[1])
               /\ UNCHANGED <<out, parent_head>>
          ELSE /\ out' = r.bytes
               /\ IF DecodeRaises(r.bytes)
                  THEN /\ Except("UnicodeDecodeError")
                       /\ UNCHANGED parent_head
                  ELSE /\ parent_head' = AncestryLabel(Decode(r.bytes))
                       /\ pc' = "check_ancestry"
                       /\ UNCHANGED <<stdout, stderr, exc, check_status>>
    /\ UNCHANGED <<srcb, tgtb, source_branch, target_branch, behind, ahead,
                   system_exit>>

\* lines 61-69
CheckAncestry ==
    /\ pc = "check_ancestry"
    /\ IF ~FromMain(parent_head)
       THEN /\ Say("wrong ancestry", parent_head)
            /\ Return(ExitPolicy)
       ELSE /\ Say("stems from main", <<>>)
            /\ Return(ExitPass)
    /\ UNCHANGED <<srcb, tgtb, source_branch, target_branch, out, behind, ahead,
                   parent_head, calls, stderr, exc, system_exit>>

Next ==
    \/ ParseArgs
    \/ CheckSource
    \/ DistanceQuery
    \/ CheckBehind
    \/ CheckAhead
    \/ AncestryQuery
    \/ CheckAncestry

Spec == Init /\ [][Next]_vars

(***************************************************************************)
(* Vocabulary of the properties.                                           *)
(***************************************************************************)
\* the kind of the last message printed
LastMsg == IF stdout = <<>> THEN "" ELSE stdout[Len(stdout)].msg

\* the command a call ran, read off the head of its command line
IsDistanceCall(c) == c[1] = "git rev-list --count --left-right "

IsAncestryCall(c) == c[1] = "git describe --all --first-parent "

\* line 33 has bound behind and ahead: the first try block ended without raising
DistanceParsed == Len(calls) = 2 \/ (Len(calls) = 1 /\ exc = <<>>)

\* line 55 has bound parent_head: the second try block ended without raising
AncestryResolved == Len(calls) = 2 /\ exc = <<>>

\* the text after the last "/" of t (all of t when it holds none), read off the
\* position of that "/"
AfterLastSlash(t) ==
    IF \A i \in 1..Len(t) : t[i] # "/"
    THEN t
    ELSE LET k == CHOOSE i \in 1..Len(t) :
                      t[i] = "/" /\ \A j \in (i + 1)..Len(t) : t[j] # "/"
         IN  [j \in 1..(Len(t) - k) |-> t[k + j]]

\* t without its leading and trailing characters of W, read off the positions
\* of its first and last characters outside W
TrimmedOf(t, W) ==
    LET keep == {i \in 1..Len(t) : t[i] \notin W}
    IN  IF keep = {} THEN <<>>
        ELSE LET lo == CHOOSE i \in keep : \A j \in keep : i <= j
                 hi == CHOOSE i \in keep : \A j \in keep : j <= i
             IN  [j \in 1..(hi - lo + 1) |-> t[lo + j - 1]]

\* t without its surrounding whitespace
Trimmed(t) == TrimmedOf(t, Whitespace)

\* the tab-separated tokens of t, blank ones included
Tokens(t) == Split(t, "\t")

\* x is a decimal integer literal: an optional sign and digits (single
\* underscores allowed between digits), whitespace around it ignored
IsIntegerToken(x) ==
    LET b == TrimmedOf(x, IntWhitespace)
        d == IF b # <<>> /\ b[1] \in {"+", "-"}
             THEN [j \in 1..(Len(b) - 1) |-> b[j + 1]] ELSE b
    IN  /\ d # <<>>
        /\ d[1] \in Digits /\ d[Len(d)] \in Digits
        /\ \A i \in 1..Len(d) :
              \/ d[i] \in Digits
              \/ d[i] = "_" /\ d[i - 1] \in Digits /\ d[i + 1] \in Digits

(***************************************************************************)
(* Properties.                                                             *)
(***************************************************************************)
\* C1: once the distance query has parsed with behind > 0, whatever ahead is,
\* the run is over after the rebase test: it printed the rebase message with
\* the behind count and nothing else, returned 1, and made no ancestry query.
C1_BehindCheckedFirst ==
    (DistanceParsed /\ behind > 0 /\ pc # "check_behind") =>
        /\ pc = "done"
        /\ check_status = <<1>>
        /\ Len(stdout) = 1
        /\ LastMsg = "needs rebase"
        /\ stdout[1].arg = <<behind>>
        /\ Len(calls) = 1
        /\ IsDistanceCall(calls[1])

\* a run that ended on the rebase rule although ahead exceeds the limit
C1_Witness ==
    /\ pc = "done"
    /\ DistanceParsed
    /\ srcb # None
    /\ behind > 0
    /\ ahead > 15
    /\ check_status = <<1>>
    /\ LastMsg = "needs rebase"

\* C2: with behind = 0 and ahead > 15 the run ends after the commit-count
\* test with the too-many-commits message, exit code 1 and no ancestry query;
\* with behind = 0 and ahead = 15 that message is never printed and the run
\* goes on to the ancestry query.
C2_CommitLimit ==
    /\ (DistanceParsed /\ behind = 0 /\ ahead > 15
            /\ pc \notin {"check_behind", "check_ahead"}) =>
          /\ pc = "done"
          /\ check_status = <<1>>
          /\ LastMsg = "too many commits"
          /\ Len(calls) = 1
    /\ (DistanceParsed /\ behind = 0 /\ ahead = 15
            /\ pc \notin {"check_behind", "check_ahead"}) =>
          /\ \A i \in 1..Len(stdout) : stdout[i].msg # "too many commits"
          /\ stdout[1].msg = "history up to date"
          /\ pc = "ancestry_query" \/ Len(calls) = 2

\* a run that ended on the commit-count rule just above the limit
C2_Witness ==
    /\ pc = "done"
    /\ DistanceParsed
    /\ behind = 0
    /\ ahead = 16
    /\ check_status = <<1>>
    /\ LastMsg = "too many commits"
    /\ Len(calls) = 1

\* C3: a finished run with behind = 0, ahead <= 15 and a successful ancestry
\* query returns 0 exactly when the resolved label is the text "main"; with
\* any other label it returns 1 with the wrong-ancestry message.
C3_AncestryVerdict ==
    (pc = "done" /\ AncestryResolved /\ behind = 0 /\ ahead <= 15) =>
        /\ check_status = <<0>> <=> parent_head = <<"m", "a", "i", "n">>
        /\ parent_head = <<"m", "a", "i", "n">> => LastMsg = "stems from main"
        /\ parent_head # <<"m", "a", "i", "n">> =>
              /\ check_status = <<1>>
              /\ LastMsg = "wrong ancestry"
              /\ stdout[Len(stdout)].arg = parent_head

\* a run that passed at the commit limit
C3_Witness ==
    /\ pc = "done"
    /\ AncestryResolved
    /\ behind = 0
    /\ ahead = 15
    /\ parent_head = <<"m", "a", "i", "n">>
    /\ check_status = <<0>>

MalformedDistance(b) ==
    \/ \E i \in 1..Len(b) : b[i] = InvalidByte
    \/ Len(Tokens(b)) # 2
    \/ \E i \in 1..Len(Tokens(b)) : ~IsIntegerToken(Tokens(b)[i])

\* C5: a failure of either query (the call fails, or its output does not
\* decode, or the distance output holds a non-integer token or other than two
\* tab-separated integer tokens) never escapes main: the run ends there with
\* the error message and exit code -1, and a failed distance query is not
\* followed by the ancestry query.
C5_QueryFailureHandled ==
    /\ pc # "uncaught"
    /\ exc # <<>> =>
          /\ pc = "done"
          /\ check_status = <<-1>>
          /\ LastMsg = "history check error"
          /\ stdout[Len(stdout)].arg = exc
          /\ Len(stdout) = 1 => Len(calls) = 1
    /\ (Len(calls) = 1 /\ pc # "distance_query" /\ MalformedDistance(out)) =>
          exc # <<>>

\* C6: a finished run returned -1 exactly when the source was not given or a
\* query failed, and returned 1 or 0 only when the source was given and no
\* query failed, 1 going with one of the three policy messages.
C6_ExitClasses ==
    pc = "done" =>
        /\ check_status = <<-1>> <=> (srcb = None \/ exc # <<>>)
        /\ check_status = <<1>> =>
              LastMsg \in {"needs rebase", "too many commits", "wrong ancestry"}
        /\ check_status = <<0>> => LastMsg = "stems from main"

\* C7: at most two subprocess calls are made; the first is the distance
\* query, the second the ancestry query, made only after the distance query
\* parsed with behind = 0 and ahead <= 15.
C7_QueryOrder ==
    /\ Len(calls) <= 2
    /\ Len(calls) >= 1 => IsDistanceCall(calls[1])
    /\ Len(calls) = 2 =>
          /\ IsAncestryCall(calls[2])
          /\ behind = 0
          /\ ahead <= 15

\* C8: whenever the distance output has been parsed without error, behind and
\* ahead are both non-negative.
C8_NonNegativeDistance ==
    DistanceParsed => (behind >= 0 /\ ahead >= 0)

\* the two ancestry outputs of the specification's scenarios
RefsRemotesOriginMain ==
    <<"r", "e", "f", "s", "/", "r", "e", "m", "o", "t", "e", "s", "/",
      "o", "r", "i", "g", "i", "n", "/", "m", "a", "i", "n">>

RefsHeadsFeatureX ==
    <<"r", "e", "f", "s", "/", "h", "e", "a", "d", "s", "/",
      "f", "e", "a", "t", "u", "r", "e", "-", "x">>

\* C9: the label compared with "main" is the text after the last "/" of the
\* ancestry output, trimmed (the whole trimmed output when it holds no "/"),
\* and the exit code depends on that segment alone: "refs/remotes/origin/main"
\* gives the label "main" and exit code 0, "refs/heads/feature-x" gives the
\* label "feature-x" and exit code 1.
C9_LabelIsLastSegment ==
    /\ (AncestryResolved /\ pc \in {"check_ancestry", "done"}) =>
          parent_head = Trimmed(AfterLastSlash(out))
    /\ (AncestryResolved /\ pc = "done") =>
          /\ check_status = <<0>> <=>
                Trimmed(AfterLastSlash(out)) = <<"m", "a", "i", "n">>
          /\ check_status = <<1>> <=>
                Trimmed(AfterLastSlash(out)) # <<"m", "a", "i", "n">>
          /\ out = RefsRemotesOriginMain =>
                parent_head = <<"m", "a", "i", "n">> /\ check_status = <<0>>
          /\ out = RefsHeadsFeatureX =>
                /\ parent_head = <<"f", "e", "a", "t", "u", "r", "e", "-", "x">>
                /\ check_status = <<1>>

\* a run that passed on the output "refs/remotes/origin/main"
C9_Witness ==
    /\ pc = "done"
    /\ AncestryResolved
    /\ out = RefsRemotesOriginMain
    /\ parent_head = <<"m", "a", "i", "n">>
    /\ check_status = <<0>>

\* C10: every run that was given a source branch on the command line,
\* whatever its text, goes past the source test to the distance query and
\* never prints the missing-source message.
C10_SuppliedSourceProceeds ==
    (srcb # None /\ pc \notin {"parse_args", "check_source", "distance_query"})
        =>
        /\ Len(calls) >= 1
        /\ \A i \in 1..Len(stdout) : stdout[i].msg # "source branch missing"
====
